---- MODULE Spec2Model ----
(***************************************************************************)
(* git-log-search: the commands prepare, list_embeddings, search and       *)
(* cleanup of message.py over the working directory .tmp, the provider     *)
(* dispatch of utilities/embeddings.py, utilities/llm_provider.py and      *)
(* utilities/api_key_manager.py, and the commit extractor of               *)
(* utilities/git_command_utilities.py.                                     *)
(*                                                                         *)
(* Strings that the code compares, sorts or globs (file and directory      *)
(* names) are sequences of character codes, so that sorting is Python's    *)
(* code-point order.  Text that the code splits and strips (git log        *)
(* output) is a sequence of one-character tokens.                          *)
(***************************************************************************)
EXTENDS Integers, Sequences, FiniteSets, TLC

VARIABLES
    clock,      \* the UTC wall clock, in seconds after midnight of BaseDate
    files,      \* the metadata files under .tmp: records [name, content]
    dirs,       \* the names of the vector-store directories under .tmp
    proc,       \* one record per command process: position, arguments, locals
    repo,       \* the commit history the extractor is run on (newest first)
    raw,        \* the output of git log
    entries,    \* the entries the extractor's loop has still to visit
    docs,       \* the documents the extractor has appended so far
    x_pc,       \* the extractor's position
    d_pc,       \* the provider dispatch's position
    d_kind,     \* which dispatch is called: "embeddings" or "llm"
    d_provider, \* its provider argument
    d_model,    \* its model argument
    d_key,      \* the value of OPENAI_API_KEY in the environment
    d_trace     \* what the dispatch has done so far

fsvars == <<clock, files, dirs, proc>>
xvars == <<repo, raw, entries, docs, x_pc>>
dvars == <<d_pc, d_kind, d_provider, d_model, d_key, d_trace>>
vars == <<clock, files, dirs, proc, repo, raw, entries, docs, x_pc,
          d_pc, d_kind, d_provider, d_model, d_key, d_trace>>

(***************************************************************************)
(* Bounds of the model.                                                    *)
(***************************************************************************)
\* The clock starts at ClockStart seconds and ticks at most MaxClock times.
ClockStart == 59
MaxClock == 1
\* Queries have QueryLimit..QueryLimit + MaxOver characters.
MaxOver == 1
\* The extractor is run on histories of 1..MaxCommits commits.
MaxCommits == 2

(***************************************************************************)
(* Program constants.                                                      *)
(***************************************************************************)
\* len(query) > 200
QueryLimit == 200
\* "%Y%m%d%H%M%S" prints 14 digits
TsWidth == 14
\* entry.split("\x1f", 4); if len(parts) != 4
SplitMaxsplit == 4
FieldCount == 4

\* "-embeddings-", ".json", ".git_gpt_chroma_db_" as character codes
EmbedInfix == <<45, 101, 109, 98, 101, 100, 100, 105, 110, 103, 115, 45>>
JsonSuffix == <<46, 106, 115, 111, 110>>
ChromaPrefix == <<46, 103, 105, 116, 95, 103, 112, 116, 95, 99, 104, 114, 111,
                  109, 97, 95, 100, 98, 95>>
\* the day the clock runs in, "20240101"
BaseDate == <<50, 48, 50, 52, 48, 49, 48, 49>>
Space == 32
Underscore == 95
Zero == 48

\* The resolved names of the folders prepare is run on: "a" and "b c".
Folders == {<<97>>, <<98, 32, 99>>}

Procs == {1, 2, 3, 4}
\* The command each process runs when the commands run concurrently.
Role == <<"prepare", "prepare", "search", "cleanup">>
Commands == {"prepare", "list_embeddings", "search", "cleanup"}

\* The lengths of the queries: the limit itself and the lengths just over it.
QueryLens == QueryLimit..(QueryLimit + MaxOver)
Providers == {"hf", "openai", "cohere", "HF", ""}
Models == {"BAAI/bge-small-en-v1.5", "text-embedding-3-small"}
\* OPENAI_API_KEY: not in the environment, set to the empty string, or set
ApiKeys == {"unset", "", "sk-1"}

(***************************************************************************)
(* Strings.                                                                *)
(***************************************************************************)
Min(a, b) == IF a <= b THEN a ELSE b

\* Python's str.__lt__: the first differing character decides, a proper
\* prefix is smaller.
LexLess(a, b) ==
    \E i \in 1..(Min(Len(a), Len(b)) + 1) :
        /\ \A j \in 1..(i - 1) : a[j] = b[j]
        /\ \/ i > Len(a) /\ i <= Len(b)
           \/ i <= Len(a) /\ i <= Len(b) /\ a[i] < b[i]

HasSuffix(s, suf) ==
    Len(s) >= Len(suf) /\ SubSeq(s, Len(s) - Len(suf) + 1, Len(s)) = suf

HasPrefix(s, pre) ==
    Len(s) >= Len(pre) /\ SubSeq(s, 1, Len(pre)) = pre

\* fnmatch of "*-embeddings-*.json"
MatchesEmbedGlob(s) ==
    /\ HasSuffix(s, JsonSuffix)
    /\ \E k \in 1..Len(s) :
          /\ k + Len(EmbedInfix) - 1 <= Len(s) - Len(JsonSuffix)
          /\ SubSeq(s, k, k + Len(EmbedInfix) - 1) = EmbedInfix

\* fnmatch of ".git_gpt_chroma_db_*"
MatchesChromaGlob(s) == HasPrefix(s, ChromaPrefix)

TwoDigits(n) == <<Zero + (n \div 10), Zero + (n % 10)>>

\* strftime("%Y%m%d%H%M%S") of the clock, within the day BaseDate
Timestamp(t) ==
    BaseDate \o TwoDigits((t \div 3600) % 24) \o TwoDigits((t \div 60) % 60)
             \o TwoDigits(t % 60)

\* target_dir.resolve().name.replace(" ", "_")
NodeName(folder) ==
    [i \in 1..Len(folder) |-> IF folder[i] = Space THEN Underscore ELSE folder[i]]

get_embeddings_store_paths(target_dir, now) ==
    [embed_file |-> NodeName(target_dir) \o EmbedInfix \o Timestamp(now) \o JsonSuffix,
     chroma_dir |-> ChromaPrefix \o Timestamp(now)]

\* sorted(files): ascending in Python's order
RECURSIVE Sorted(_)
Sorted(S) ==
    IF S = {} THEN <<>>
    ELSE LET m == CHOOSE x \in S : \A y \in S : x = y \/ LexLess(x, y)
         IN  <<m>> \o Sorted(S \ {m})

Reverse(s) == [i \in 1..Len(s) |-> s[Len(s) + 1 - i]]

\* A mutant of Latest: the first of the sorted names is taken.
LatestFirst(S) == Sorted(S)[1]

\* sorted(files)[-1]
Latest(S) == Sorted(S)[Len(Sorted(S))]

(***************************************************************************)
(* The working directory.                                                  *)
(***************************************************************************)
FileNames == {f.name : f \in files}
DirEntries == FileNames \cup dirs

\* Path(root_dir).glob("*-embeddings-*.json")
GlobEmbed == {n \in DirEntries : MatchesEmbedGlob(n)}

\* Path(root_dir).glob(".git_gpt_chroma_db_*")
GlobChroma == {n \in DirEntries : MatchesChromaGlob(n)}

\* embed_file.write_text(...): the file is created or overwritten
WriteText(name, content) ==
    {f \in files : f.name # name} \cup {[name |-> name, content |-> content]}

\* json.loads(latest.read_text())
ReadText(name) == (CHOOSE f \in files : f.name = name).content

(***************************************************************************)
(* Provider dispatch.  Each function returns what it does, in order:       *)
(* reading the environment, constructing a client, exiting with code 1.    *)
(***************************************************************************)
Ev(op, what, model) == [op |-> op, what |-> what, model |-> model]
ExitOne == Ev("exit", "1", "")
Exits(t) == t # <<>> /\ t[Len(t)] = ExitOne
Constructed(t) == {t[i].what : i \in {j \in 1..Len(t) : t[j].op = "new"}}
Reached(t, kind) == IF Constructed(t) = {} THEN {} ELSE {kind}

\* A mutant of get_api_key_openai: only an unset key is refused.
get_api_key_openai_unset_only(key) ==
    <<Ev("getenv", "OPENAI_API_KEY", "")>>
        \o (IF key = "unset" THEN <<ExitOne>> ELSE <<>>)

\* key = os.getenv("OPENAI_API_KEY"); if not key: Exit(1)
get_api_key_openai(key) ==
    <<Ev("getenv", "OPENAI_API_KEY", "")>>
        \o (IF key \in {"unset", ""} THEN <<ExitOne>> ELSE <<>>)

get_api_key(provider, key) ==
    IF provider = "openai" THEN get_api_key_openai(key) ELSE <<ExitOne>>

get_embeddings(provider, model, key) ==
    IF provider = "hf" THEN <<Ev("new", "HuggingFaceEmbeddings", model)>>
    ELSE IF provider = "openai"
         THEN LET k == get_api_key("openai", key)
              IN  IF Exits(k) THEN k
                  ELSE k \o <<Ev("new", "OpenAIEmbeddings", model)>>
         ELSE <<ExitOne>>

get_llm_provider_openai(model, key) ==
    LET k == get_api_key("openai", key)
    IN  IF Exits(k) THEN k ELSE k \o <<Ev("new", "ChatOpenAI", model)>>

get_llm_provider(provider, model, key) ==
    IF provider = "openai" THEN get_llm_provider_openai(model, key)
    ELSE <<ExitOne>>

(***************************************************************************)
(* The command processes.                                                  *)
(***************************************************************************)
IdleProc ==
    [pc |-> "idle", cmd |-> "none", folder |-> <<>>, has_git |-> FALSE,
     query_len |-> 0, embed_file |-> <<>>, chroma_dir |-> <<>>,
     found |-> {}, found_dirs |-> {}, todo |-> {}, queue |-> <<>>,
     latest |-> <<>>, read |-> {}, opened |-> {}, calls |-> {},
     outcome |-> "none"]

Entry(c) ==
    CASE c = "prepare" -> "p_check"
      [] c = "search" -> "s_check"
      [] c = "list_embeddings" -> "l_check"
      [] c = "cleanup" -> "c_files"

\* The process ends and its locals go with it: "ok" is exit code 0, "exit1"
\* is typer.Exit(code=1), "error" is an exception that nothing catches.
\* What it read, opened, called and (cleanup) was to remove stays on record.
Ended(r, how) ==
    [r EXCEPT !.pc = "done", !.outcome = how, !.embed_file = <<>>,
              !.chroma_dir = <<>>, !.found = {}, !.todo = {}, !.queue = <<>>,
              !.latest = <<>>]

Running(p) == proc[p].pc \notin {"idle", "done"}

\* A command line is run: the command and the arguments its entry check reads.
Start(p, c) ==
    \E folder \in (IF c = "prepare" THEN Folders ELSE {<<>>}),
       g \in (IF c = "prepare" THEN BOOLEAN ELSE {FALSE}),
       q \in (IF c = "search" THEN QueryLens ELSE {0}) :
        /\ proc' = [proc EXCEPT ![p] =
                [IdleProc EXCEPT !.pc = Entry(c), !.cmd = c, !.folder = folder,
                                 !.has_git = g, !.query_len = q,
                                 !.outcome = "running"]]
        /\ UNCHANGED <<clock, files, dirs, xvars, dvars>>

\* one command after another
SeqInvoke(p) ==
    /\ proc[p].pc \in {"idle", "done"}
    /\ \E c \in Commands : Start(p, c)

\* each process runs its command once
ConcInvoke(p) ==
    /\ proc[p].pc = "idle"
    /\ Start(p, Role[p])

Tick ==
    /\ clock < ClockStart + MaxClock
    /\ clock' = clock + 1
    /\ UNCHANGED <<files, dirs, proc, xvars, dvars>>

---------------------------------------------------------------------------
(* prepare *)

PrepareCheck(p) ==
    /\ proc[p].pc = "p_check"
    /\ proc' = [proc EXCEPT ![p] =
            IF ~ @.has_git THEN Ended(@, "exit1")
            ELSE LET paths == get_embeddings_store_paths(@.folder, clock)
                 IN  [@ EXCEPT !.pc = "p_git",
                               !.embed_file = paths.embed_file,
                               !.chroma_dir = paths.chroma_dir]]
    /\ UNCHANGED <<clock, files, dirs, xvars, dvars>>

\* git rev-parse and git log
PrepareGit(p) ==
    /\ proc[p].pc = "p_git"
    /\ proc' = [proc EXCEPT ![p] =
            [@ EXCEPT !.pc = "p_embed", !.calls = @ \cup {"git"}]]
    /\ UNCHANGED <<clock, files, dirs, xvars, dvars>>

\* embeddings = _get_embeddings(provider, model)
\* (a command records which kinds of service it reached, not the class)
WithEmbeddings(r, next) ==
    {IF Exits(t) THEN Ended([r EXCEPT !.calls = @ \cup Reached(t, "embeddings")], "exit1")
     ELSE [r EXCEPT !.pc = next, !.calls = @ \cup Reached(t, "embeddings")] :
        t \in {get_embeddings(pr, m, k) : pr \in Providers, m \in Models,
                                          k \in ApiKeys}}

PrepareEmbeddings(p) ==
    /\ proc[p].pc = "p_embed"
    /\ \E r \in WithEmbeddings(proc[p], "p_chroma") :
          proc' = [proc EXCEPT ![p] = r]
    /\ UNCHANGED <<clock, files, dirs, xvars, dvars>>

\* A mutant of PrepareChroma: the store is built without its directory.
PrepareChromaNoDir(p) ==
    /\ proc[p].pc = "p_chroma"
    /\ proc' = [proc EXCEPT ![p] =
            [@ EXCEPT !.pc = "p_write", !.calls = @ \cup {"vector_store"}]]
    /\ UNCHANGED <<clock, files, dirs, xvars, dvars>>

\* Chroma.from_documents(..., persist_directory=str(chroma_dir)): the
\* directory is created, and adding the documents succeeds or raises.
PrepareChroma(p) ==
    /\ proc[p].pc = "p_chroma"
    /\ dirs' = dirs \cup {proc[p].chroma_dir}
    /\ \E ok \in BOOLEAN :
          proc' = [proc EXCEPT ![p] =
              IF ok THEN [@ EXCEPT !.pc = "p_write", !.calls = @ \cup {"vector_store"}]
              ELSE Ended([@ EXCEPT !.calls = @ \cup {"vector_store"}], "error")]
    /\ UNCHANGED <<clock, files, xvars, dvars>>

\* payload = {...}; embed_file.write_text(json.dumps(payload))
PrepareWrite(p) ==
    /\ proc[p].pc = "p_write"
    /\ files' = WriteText(proc[p].embed_file,
                          [created_at |-> clock, path |-> proc[p].folder,
                           chroma_dir |-> proc[p].chroma_dir])
    /\ proc' = [proc EXCEPT ![p] = Ended(@, "ok")]
    /\ UNCHANGED <<clock, dirs, xvars, dvars>>

---------------------------------------------------------------------------
(* search *)

\* A mutant of SearchCheck: a query of 200 characters is refused too.
SearchCheckOffByOne(p) ==
    /\ proc[p].pc = "s_check"
    /\ proc' = [proc EXCEPT ![p] =
            IF @.query_len >= QueryLimit THEN Ended(@, "exit1")
            ELSE IF GlobEmbed = {} THEN Ended(@, "exit1")
            ELSE [@ EXCEPT !.pc = "s_read", !.found = GlobEmbed,
                           !.latest = Latest(GlobEmbed)]]
    /\ UNCHANGED <<clock, files, dirs, xvars, dvars>>

\* len(query) > 200; files = glob(...); if not files; latest = sorted(files)[-1]
SearchCheck(p) ==
    /\ proc[p].pc = "s_check"
    /\ proc' = [proc EXCEPT ![p] =
            IF @.query_len > QueryLimit THEN Ended(@, "exit1")
            ELSE IF GlobEmbed = {} THEN Ended(@, "exit1")
            ELSE [@ EXCEPT !.pc = "s_read", !.found = GlobEmbed,
                           !.latest = Latest(GlobEmbed)]]
    /\ UNCHANGED <<clock, files, dirs, xvars, dvars>>

\* data = json.loads(latest.read_text()); chroma_dir = data["chroma_dir"]
\* (read_text raises FileNotFoundError when the file is gone)
SearchRead(p) ==
    /\ proc[p].pc = "s_read"
    /\ proc' = [proc EXCEPT ![p] =
            IF @.latest \in FileNames
            THEN [@ EXCEPT !.pc = "s_embed", !.read = @ \cup {proc[p].latest},
                           !.chroma_dir = ReadText(proc[p].latest).chroma_dir]
            ELSE Ended(@, "error")]
    /\ UNCHANGED <<clock, files, dirs, xvars, dvars>>

\* embedding_function=_get_embeddings(provider, model)
SearchEmbeddings(p) ==
    /\ proc[p].pc = "s_embed"
    /\ \E r \in WithEmbeddings(proc[p], "s_open") :
          proc' = [proc EXCEPT ![p] = r]
    /\ UNCHANGED <<clock, files, dirs, xvars, dvars>>

\* vectordb = Chroma(persist_directory=chroma_dir, ...); similarity_search.
\* Opening a directory that is gone leaves it absent or makes an empty store
\* there: the vector database decides.
SearchOpen(p) ==
    /\ proc[p].pc = "s_open"
    /\ dirs' \in {dirs, dirs \cup {proc[p].chroma_dir}}
    /\ proc' = [proc EXCEPT ![p] =
            [@ EXCEPT !.pc = "s_sum", !.opened = @ \cup {proc[p].chroma_dir},
                      !.calls = @ \cup {"vector_store"}]]
    /\ UNCHANGED <<clock, files, xvars, dvars>>

\* if summarize: llm = _get_llm_provider(llm_provider, llm_model); chain.invoke
SearchSummarize(p) ==
    /\ proc[p].pc = "s_sum"
    /\ \E summarize \in BOOLEAN :
       \E t \in {get_llm_provider(pr, m, k) : pr \in Providers, m \in Models,
                                               k \in ApiKeys} :
          proc' = [proc EXCEPT ![p] =
              IF ~ summarize THEN Ended(@, "ok")
              ELSE Ended([@ EXCEPT !.calls = @ \cup Reached(t, "llm")],
                         IF Exits(t) THEN "exit1" ELSE "ok")]
    /\ UNCHANGED <<clock, files, dirs, xvars, dvars>>

---------------------------------------------------------------------------
(* list_embeddings *)

\* files = glob(...); if not files; for file in sorted(files, reverse=True)
ListCheck(p) ==
    /\ proc[p].pc = "l_check"
    /\ proc' = [proc EXCEPT ![p] =
            IF GlobEmbed = {} THEN Ended(@, "exit1")
            ELSE [@ EXCEPT !.pc = "l_read", !.found = GlobEmbed,
                           !.queue = Reverse(Sorted(GlobEmbed))]]
    /\ UNCHANGED <<clock, files, dirs, xvars, dvars>>

\* one turn of the loop: the file is read and printed, or the exception of
\* reading it is caught and reported; after the last file the command ends
ListRead(p) ==
    /\ proc[p].pc = "l_read"
    /\ proc' = [proc EXCEPT ![p] =
            IF @.queue = <<>> THEN Ended(@, "ok")
            ELSE [@ EXCEPT !.queue = Tail(@),
                           !.read = IF Head(proc[p].queue) \in FileNames
                                    THEN @ \cup {Head(proc[p].queue)} ELSE @]]
    /\ UNCHANGED <<clock, files, dirs, xvars, dvars>>

---------------------------------------------------------------------------
(* cleanup *)

\* embed_files = list(Path(root_dir).glob("*-embeddings-*.json"))
CleanupGlobFiles(p) ==
    /\ proc[p].pc = "c_files"
    /\ proc' = [proc EXCEPT ![p] =
            [@ EXCEPT !.pc = "c_dirs", !.found = GlobEmbed, !.todo = GlobEmbed]]
    /\ UNCHANGED <<clock, files, dirs, xvars, dvars>>

\* A mutant of CleanupGlobDirs: the pattern matches no directory.
CleanupGlobNoDirs(p) ==
    /\ proc[p].pc = "c_dirs"
    /\ proc' = [proc EXCEPT ![p] = [@ EXCEPT !.pc = "c_unlink", !.found_dirs = {}]]
    /\ UNCHANGED <<clock, files, dirs, xvars, dvars>>

\* chroma_dirs = list(Path(root_dir).glob(".git_gpt_chroma_db_*"))
CleanupGlobDirs(p) ==
    /\ proc[p].pc = "c_dirs"
    /\ proc' = [proc EXCEPT ![p] =
            [@ EXCEPT !.pc = "c_unlink", !.found_dirs = GlobChroma]]
    /\ UNCHANGED <<clock, files, dirs, xvars, dvars>>

\* A mutant of CleanupUnlink: a lock holds the loop back while a search is
\* between selecting its file and reading it.
CleanupUnlinkLocked(p) ==
    /\ proc[p].pc = "c_unlink"
    /\ \A q \in Procs : proc[q].pc # "s_read"
    /\ IF proc[p].todo = {}
       THEN /\ proc' = [proc EXCEPT ![p] =
                    [@ EXCEPT !.pc = "c_rmtree", !.todo = proc[p].found_dirs]]
            /\ UNCHANGED files
       ELSE \E f \in proc[p].todo :
               /\ files' = {x \in files : x.name # f}
               /\ proc' = [proc EXCEPT ![p] = [@ EXCEPT !.todo = @ \ {f}]]
    /\ UNCHANGED <<clock, dirs, xvars, dvars>>

\* for f in embed_files: f.unlink()   (the order of a glob is the file
\* system's; unlink raises FileNotFoundError when the file is gone)
CleanupUnlink(p) ==
    /\ proc[p].pc = "c_unlink"
    /\ IF proc[p].todo = {}
       THEN /\ proc' = [proc EXCEPT ![p] =
                    [@ EXCEPT !.pc = "c_rmtree", !.todo = proc[p].found_dirs]]
            /\ UNCHANGED files
       ELSE \E f \in proc[p].todo :
               IF f \in FileNames
               THEN /\ files' = {x \in files : x.name # f}
                    /\ proc' = [proc EXCEPT ![p] = [@ EXCEPT !.todo = @ \ {f}]]
               ELSE /\ proc' = [proc EXCEPT ![p] = Ended(@, "error")]
                    /\ UNCHANGED files
    /\ UNCHANGED <<clock, dirs, xvars, dvars>>

\* for d in chroma_dirs: shutil.rmtree(d, ignore_errors=True)
CleanupRmtree(p) ==
    /\ proc[p].pc = "c_rmtree"
    /\ IF proc[p].todo = {}
       THEN /\ proc' = [proc EXCEPT ![p] = Ended(@, "ok")]
            /\ UNCHANGED dirs
       ELSE \E d \in proc[p].todo :
               /\ dirs' = dirs \ {d}
               /\ proc' = [proc EXCEPT ![p] = [@ EXCEPT !.todo = @ \ {d}]]
    /\ UNCHANGED <<clock, files, xvars, dvars>>

---------------------------------------------------------------------------
\* The statement a process is about to run raises (a git subprocess, a
\* provider, the vector store, the LLM or the file system fails) or the
\* process is interrupted there.  The entry checks call nothing that fails.
FailPoints ==
    {"p_git", "p_embed", "p_chroma", "p_write", "s_read", "s_embed", "s_open",
     "s_sum", "l_read", "c_dirs", "c_unlink", "c_rmtree"}

Fail(p) ==
    /\ proc[p].pc \in FailPoints
    /\ proc' = [proc EXCEPT ![p] = Ended(@, "error")]
    /\ UNCHANGED <<clock, files, dirs, xvars, dvars>>

PrepareStep(p) ==
    \/ PrepareCheck(p)
    \/ PrepareGit(p)
    \/ PrepareEmbeddings(p)
    \/ PrepareChroma(p)
    \/ PrepareWrite(p)

SearchStep(p) ==
    \/ SearchCheck(p)
    \/ SearchRead(p)
    \/ SearchEmbeddings(p)
    \/ SearchOpen(p)
    \/ SearchSummarize(p)

ListStep(p) == ListCheck(p) \/ ListRead(p)

CleanupStep(p) ==
    \/ CleanupGlobFiles(p)
    \/ CleanupGlobDirs(p)
    \/ CleanupUnlink(p)
    \/ CleanupRmtree(p)

InitFs ==
    /\ clock = ClockStart
    /\ files = {}
    /\ dirs = {}
    /\ proc = [p \in Procs |-> IdleProc]

IdleExtractor ==
    /\ repo = <<>>
    /\ raw = <<>>
    /\ entries = <<>>
    /\ docs = <<>>
    /\ x_pc = "off"

IdleDispatch ==
    /\ d_pc = "off"
    /\ d_kind = "none"
    /\ d_provider = ""
    /\ d_model = ""
    /\ d_key = "unset"
    /\ d_trace = <<>>

(***************************************************************************)
(* Spec: the commands run one at a time, each to its end or to a failure,  *)
(* as the first process.                                                   *)
(***************************************************************************)
Init == InitFs /\ IdleExtractor /\ IdleDispatch

Next ==
    \/ Tick
    \/ SeqInvoke(1)
    \/ PrepareStep(1)
    \/ SearchStep(1)
    \/ ListStep(1)
    \/ CleanupStep(1)
    \/ Fail(1)

Spec == Init /\ [][Next]_vars

(***************************************************************************)
(* SpecConc: two prepare processes, a search and a cleanup, each run once, *)
(* interleaved statement by statement on the same working directory.  No   *)
(* statement fails but for what the other processes did to the directory.  *)
(***************************************************************************)
NextConc ==
    \/ Tick
    \/ \E p \in Procs :
          \/ ConcInvoke(p)
          \/ PrepareStep(p)
          \/ SearchStep(p)
          \/ CleanupStep(p)

SpecConc == Init /\ [][NextConc]_vars

(***************************************************************************)
(* The commit extractor.  Text is a sequence of tokens: "US" is \x1f, "RS" *)
(* is \x1e, "NL" is the newline, "SP" the space, any other token a         *)
(* printable character.                                                    *)
(***************************************************************************)
US == "US"
RS == "RS"
NL == "NL"

\* What str.strip() takes for whitespace: Python counts \x1c..\x1f in.
PyWhitespace == {"SP", "NL", "US", "RS"}

RECURSIVE LStrip(_)
LStrip(s) ==
    IF s # <<>> /\ Head(s) \in PyWhitespace THEN LStrip(Tail(s)) ELSE s

RECURSIVE RStrip(_)
RStrip(s) ==
    IF s # <<>> /\ s[Len(s)] \in PyWhitespace
    THEN RStrip(SubSeq(s, 1, Len(s) - 1)) ELSE s

\* str.strip()
Strip(s) == RStrip(LStrip(s))

\* str.split(sep, maxsplit): at most maxsplit cuts, from the left
RECURSIVE SplitN(_, _, _)
SplitN(s, sep, maxsplit) ==
    IF maxsplit = 0 \/ ~ \E i \in 1..Len(s) : s[i] = sep THEN <<s>>
    ELSE LET i == CHOOSE k \in 1..Len(s) :
                      s[k] = sep /\ \A j \in 1..(k - 1) : s[j] # sep
         IN  <<SubSeq(s, 1, i - 1)>>
                 \o SplitN(SubSeq(s, i + 1, Len(s)), sep, maxsplit - 1)

\* str.split(sep)
Split(s, sep) == SplitN(s, sep, Len(s))

\* The commits of a history: a hash, an author, a date and a subject, which
\* may be empty or hold a separator character.
Commits ==
    [sha : {<<"h">>, <<"g">>}, author : {<<"a">>}, date : {<<"d">>},
     subject : {<<>>, <<"m">>, <<"m", US, "m">>, <<"m", RS, "m">>}]

Repos == UNION {[1..n -> Commits] : n \in 1..MaxCommits}

\* --pretty=format:%H%x1f%an%x1f%ad%x1f%s%x1e
FormatCommit(c) ==
    c.sha \o <<US>> \o c.author \o <<US>> \o c.date \o <<US>> \o c.subject
          \o <<RS>>

\* git log: format: puts a newline between entries and none after the last
RECURSIVE GitLog(_)
GitLog(r) ==
    IF Len(r) = 1 THEN FormatCommit(r[1])
    ELSE FormatCommit(r[1]) \o <<NL>> \o GitLog(Tail(r))

\* raw = subprocess.check_output(["git", ..., "log", ...])
\* for entry in raw.strip().split("\x1e")
ExtractLog ==
    /\ x_pc = "log"
    /\ raw' = GitLog(repo)
    /\ entries' = Split(Strip(GitLog(repo)), RS)
    /\ x_pc' = "loop"
    /\ UNCHANGED <<repo, docs, fsvars, dvars>>

\* one turn of the loop
ExtractEntry ==
    /\ x_pc = "loop"
    /\ entries # <<>>
    /\ LET entry == Head(entries)
           parts == SplitN(entry, US, SplitMaxsplit)
       IN  docs' = IF Strip(entry) = <<>> THEN docs
                   ELSE IF Len(parts) # FieldCount THEN docs
                   ELSE Append(docs, [sha |-> parts[1], author |-> parts[2],
                                      date |-> parts[3], message |-> parts[4]])
    /\ entries' = Tail(entries)
    /\ UNCHANGED <<repo, raw, x_pc, fsvars, dvars>>

\* return docs
ExtractReturn ==
    /\ x_pc = "loop"
    /\ entries = <<>>
    /\ x_pc' = "done"
    /\ UNCHANGED <<repo, raw, entries, docs, fsvars, dvars>>

(***************************************************************************)
(* SpecExtract: _extract_commits_with_message on every history.            *)
(***************************************************************************)
InitExtract ==
    /\ InitFs
    /\ IdleDispatch
    /\ repo \in Repos
    /\ raw = <<>>
    /\ entries = <<>>
    /\ docs = <<>>
    /\ x_pc = "log"

NextExtract == ExtractLog \/ ExtractEntry \/ ExtractReturn

SpecExtract == InitExtract /\ [][NextExtract]_vars

(***************************************************************************)
(* SpecDispatch: _get_embeddings and _get_llm_provider on every provider,  *)
(* model and environment, one thing they do at a time.                     *)
(***************************************************************************)
DispatchTrace ==
    IF d_kind = "embeddings" THEN get_embeddings(d_provider, d_model, d_key)
    ELSE get_llm_provider(d_provider, d_model, d_key)

DispatchStep ==
    /\ d_pc = "call"
    /\ d_trace' = SubSeq(DispatchTrace, 1, Len(d_trace) + 1)
    /\ d_pc' = IF Len(d_trace) + 1 < Len(DispatchTrace) THEN "call"
               ELSE IF Exits(DispatchTrace) THEN "exited" ELSE "returned"
    /\ UNCHANGED <<d_kind, d_provider, d_model, d_key, fsvars, xvars>>

InitDispatch ==
    /\ InitFs
    /\ IdleExtractor
    /\ d_pc = "call"
    /\ d_kind \in {"embeddings", "llm"}
    /\ d_provider \in Providers
    /\ d_model \in Models
    /\ d_key \in ApiKeys
    /\ d_trace = <<>>

NextDispatch == DispatchStep

SpecDispatch == InitDispatch /\ [][NextDispatch]_vars

(***************************************************************************)
(* The claims.                                                             *)
(***************************************************************************)
\* The metadata file names no other name of the directory sorts after.
GreatestNames == {n \in GlobEmbed : \A y \in GlobEmbed : ~ LexLess(n, y)}
GreatestStores == {f.content.chroma_dir : f \in {g \in files : g.name \in GreatestNames}}

C2_SearchSelectsNewest ==
    \A p \in Procs :
        (proc[p].pc = "s_read" /\ proc[p].latest \in FileNames) =>
            \A f \in files :
                ReadText(proc[p].latest).created_at >= f.content.created_at

\* the 14 digits before ".json"
TimestampOf(name) ==
    SubSeq(name, Len(name) - Len(JsonSuffix) - TsWidth + 1,
           Len(name) - Len(JsonSuffix))

\* C3: no two metadata files present carry the same timestamp in their names.
C3_OneFilePerTimestamp ==
    \A f \in files, g \in files :
        f # g => TimestampOf(f.name) # TimestampOf(g.name)

\* A step that leaves the metadata files and the directories as they were.
PersistedUnchanged == files' = files /\ dirs' = dirs

RefusedAtOnce(p) ==
    /\ proc'[p].pc = "done"
    /\ proc'[p].outcome = "exit1"
    /\ proc'[p].calls = {}
    /\ PersistedUnchanged

C4_Step(p) ==
    /\ (proc[p].pc = "p_check" /\ ~ proc[p].has_git /\ proc'[p] # proc[p])
          => RefusedAtOnce(p)
    /\ (proc[p].pc = "s_check" /\ proc[p].query_len > 200 /\ proc'[p] # proc[p])
          => RefusedAtOnce(p)
    /\ (proc[p].pc = "s_check" /\ GlobEmbed = {} /\ proc'[p] # proc[p])
          => RefusedAtOnce(p)
    /\ (proc[p].pc = "l_check" /\ GlobEmbed = {} /\ proc'[p] # proc[p])
          => RefusedAtOnce(p)
    /\ (proc[p].pc = "s_check" /\ proc[p].query_len = 200 /\ GlobEmbed # {}
            /\ proc'[p] # proc[p])
          => proc'[p].pc = "s_read" /\ proc'[p].outcome = "running"

\* C4: prepare on a folder without .git, search with a query of more than 200
\* characters, search with no metadata file and list_embeddings with no
\* metadata file each end with exit code 1 in their first step, having called
\* no provider, vector store or LLM and leaving the files and directories as
\* they were; a query of exactly 200 characters passes the check.
C4_PreconditionFailures == [][\A p \in Procs : C4_Step(p)]_vars

\* C4's case: a search was refused for its 201 characters while metadata
\* files were there.
C4_Witness ==
    \E p \in Procs :
        /\ proc[p].cmd = "search" /\ proc[p].query_len = 201
        /\ proc[p].outcome = "exit1"
        /\ files # {}

CleanupCompleted(p) ==
    proc[p].cmd = "cleanup" /\ proc[p].pc = "done" /\ proc[p].outcome = "ok"

WellFormedEntries(log) ==
    LET es == Split(log, RS)
    IN  {i \in 1..Len(es) :
            Strip(es[i]) # <<>> /\ Len(Split(es[i], US)) = 4}

\* C6: the extractor returns one record for each entry of the log that is not
\* blank and splits on the field separator into exactly four fields, in the
\* order of the log, and none for any other entry.
C6_OneRecordPerWellFormedEntry ==
    x_pc = "done" =>
        /\ Len(docs) = Cardinality(WellFormedEntries(raw))
        /\ \A i \in 1..Len(docs) :
              \E k \in WellFormedEntries(raw) :
                  /\ Cardinality({j \in WellFormedEntries(raw) : j < k}) = i - 1
                  /\ docs[i].message = Split(Split(raw, RS)[k], US)[4]

NoKey == d_key \in {"unset", ""}
Supported ==
    \/ d_kind = "embeddings" /\ d_provider \in {"hf", "openai"}
    \/ d_kind = "llm" /\ d_provider = "openai"

\* C7: the embedding dispatch returns an object exactly for "hf" and for
\* "openai" with a key, the LLM dispatch exactly for "openai" with a key; any
\* other provider exits with code 1 at once; "openai" with OPENAI_API_KEY
\* unset or empty exits with code 1 and never constructs a client; "hf"
\* never reads OPENAI_API_KEY.
C7_ProviderDispatch ==
    /\ d_pc = "returned" <=>
          /\ d_pc \in {"returned", "exited"}
          /\ Supported
          /\ d_provider = "openai" => ~ NoKey
    /\ (d_pc \in {"returned", "exited"} /\ ~ Supported) => d_trace = <<ExitOne>>
    /\ d_pc = "returned" =>
          Constructed(d_trace) =
              IF d_kind = "llm" THEN {"ChatOpenAI"}
              ELSE IF d_provider = "hf" THEN {"HuggingFaceEmbeddings"}
              ELSE {"OpenAIEmbeddings"}
    /\ (d_provider = "openai" /\ NoKey) => Constructed(d_trace) = {}
    /\ (d_kind = "embeddings" /\ d_provider = "hf") =>
          \A i \in 1..Len(d_trace) : d_trace[i].op # "getenv"
    /\ \A i \in 1..Len(d_trace) :
          d_trace[i].op = "new" =>
              \/ d_provider = "hf"
              \/ \E j \in 1..(i - 1) : d_trace[j].op = "getenv"

\* C7's case: the LLM dispatch for "openai" exited with the key set to "".
C7_Witness ==
    /\ d_pc = "exited" /\ d_kind = "llm" /\ d_provider = "openai" /\ d_key = ""
    /\ Len(d_trace) = 2

Orphans == {f \in files : f.content.chroma_dir \notin dirs}

RemovedBy(p) ==
    IF proc[p].cmd # "cleanup" THEN {}
    ELSE IF proc[p].pc = "c_rmtree" THEN proc[p].found_dirs \ proc[p].todo
    ELSE IF proc[p].pc = "done" /\ proc[p].outcome = "ok" THEN proc[p].found_dirs
    ELSE {}

\* C8: nothing holds a command back while another runs: a started command's
\* next statement can always run; and a metadata file whose vector-store
\* directory is gone is there only once a cleanup removed that directory.
C8_RaceUnguarded ==
    /\ \A p \in Procs :
          Running(p) => ENABLED (PrepareStep(p) \/ SearchStep(p) \/ CleanupStep(p))
    /\ \A f \in Orphans : \E p \in Procs : f.content.chroma_dir \in RemovedBy(p)

\* C8's case: a metadata file is present whose directory a cleanup deleted,
\* and search has selected a file that the cleanup deleted before the read.
C8_Witness ==
    /\ Orphans # {}
    /\ \E p \in Procs, c \in Procs :
          /\ proc[p].pc = "s_read"
          /\ proc[p].latest \notin FileNames
          /\ proc[c].cmd = "cleanup"
          /\ proc[p].latest \in proc[c].found

\* C9: with the commands run one after another, each to its end or to a
\* failure at any statement, every metadata file present names a vector-store
\* directory that exists.
C9_MetadataNamesExistingStore ==
    \A f \in files : f.content.chroma_dir \in dirs

\* C9's case: a cleanup that had directories to remove failed in its unlink
\* loop and left metadata files.
C9_Witness ==
    /\ files # {}
    /\ \E p \in Procs :
          /\ proc[p].cmd = "cleanup" /\ proc[p].outcome = "error"
          /\ proc[p].found_dirs # {}

NoSeparators(r) ==
    \A i \in 1..Len(r), f \in {"sha", "author", "date", "subject"} :
        \A j \in 1..Len(r[i][f]) : r[i][f][j] \notin {US, RS, NL}

\* C10: for a history of two or more commits whose fields hold no separator,
\* every record returned has the hash of a commit as its sha, exactly, and
\* that commit's subject as its message.
C10_ShaIsTheHash ==
    (x_pc = "done" /\ Len(repo) >= 2 /\ NoSeparators(repo)) =>
        \A i \in 1..Len(docs) :
            \E k \in 1..Len(repo) :
                docs[i].sha = repo[k].sha /\ docs[i].message = repo[k].subject

====
